---- MODULE Spec2Model ----
(***************************************************************************)
(* State-machine model of the REST transport of ably-js,                   *)
(* nodejs/lib/util/http.js: the response handler, the retryability test,   *)
(* the host resolver, the request dispatcher Http.do with its stored       *)
(* fallback host, the transport executor Http.doUri and the connectivity   *)
(* probe Http.checkConnectivity.                                           *)
(*                                                                         *)
(* JavaScript values are represented as follows.  null / undefined         *)
(* strings are the string "undefined"; an undefined number is 0 (it fails  *)
(* every numeric comparison of the code, as undefined does); an error      *)
(* object is [isNull, code, statusCode]; rest._currentFallback is          *)
(* [host, validUntil] with host "null" standing for null.  Text bodies are *)
(* sequences of one-character strings.                                     *)
(***************************************************************************)
EXTENDS Integers, Sequences, FiniteSets, TLC

\* ------------------------------------------------------------------ bounds
MaxTime == 2          \* Date.now() ranges over 0..MaxTime
MaxTimeout == 2       \* options.timeouts.fallbackRetryTimeout ranges up to MaxTimeout

Dispatches == {1, 2}  \* concurrently running calls of Http.do on one client
\* the call whose history is recorded in hist
observed == CHOOSE d \in Dispatches : \A e \in Dispatches : d <= e

\* ------------------------------------------------------------ configuration
defaultHost == "A"
FallbackHostConfigs == { <<>>, <<"B">>, <<"B", "C">> }
ConnectionHosts == {"null", "R", "B"}     \* "null": no realtime connection host
\* options.timeouts.fallbackRetryTimeout: Http.do uses the option as it finds
\* it, so a zero and a negative duration are configurations too
TimeoutConfigs == {-1, 0} \cup (1..MaxTimeout)

\* --------------------------------------------------------- network results
RecognizedCodes ==
    {"ENETUNREACH", "EHOSTUNREACH", "EHOSTDOWN", "ETIMEDOUT",
     "ESOCKETTIMEDOUT", "ENOTFOUND", "ECONNRESET", "ECONNREFUSED"}
RejectCodes == RecognizedCodes \cup {"EPIPE"}
Statuses == {200, 300, 499, 500, 504, 505}
HeaderCodes == {"undefined", "ETIMEDOUT"}     \* headers['x-ably-errorcode']
PayloadStatuses == {0, 401, 503}              \* body.error.statusCode (0: the payload has none)
Whitespace == {" ", "\n"}
Texts ==
    { <<>>, <<"y", "e", "s">>, <<" ", "y", "e", "s", " ", "\n">>,
      <<"n", "o">>, <<"y", " ", "e", "s">>, <<"y", "e", "s", "s">>,
      <<"\n", "y", "e", "s">>, <<" ">> }
yes == <<"y", "e", "s">>

\* What one call of got[method](doOptions) settles with:
\*   kind "resolve"   : the promise fulfils with a response
\*   kind "httperror" : it rejects with a got.HTTPError carrying a response
\*   kind "reject"    : it rejects with any other error (err.code = code)
\* body "raw"       : no declared JSON/msgpack type, or a decodable body
\*                    without an error member
\* body "malformed" : declared JSON/msgpack body that fails to decode
\* body "error"     : decoded body with an error member {code, statusCode}
NetResult(k, c, s, b, ps, h, t) ==
    [kind |-> k, code |-> c, statusCode |-> s, body |-> b,
     payloadStatus |-> ps, headerCode |-> h, text |-> t]

Rejections == { NetResult("reject", c, 0, "raw", 0, "undefined", <<>>) : c \in RejectCodes }

Responses(texts) ==
    UNION { UNION { { NetResult(k, "undefined", s, "raw", 0, h, t) :
                          h \in HeaderCodes, t \in texts }
                    \cup { NetResult(k, "undefined", s, "malformed", 0, "undefined", <<>>) }
                    \cup { NetResult(k, "undefined", s, "error", ps, "undefined", <<>>) :
                               ps \in PayloadStatuses }
                    : s \in Statuses } : k \in {"resolve", "httperror"} }

\* every kind of result, for the call of Http.do under observation
WireResults == Rejections \cup Responses({ <<>> })
\* one result of each class (success, retryable, not retryable, no callback),
\* for calls of Http.do that run concurrently
ClassResults ==
    { NetResult("reject", "ETIMEDOUT", 0, "raw", 0, "undefined", <<>>),
      NetResult("resolve", "undefined", 200, "raw", 0, "undefined", <<>>),
      NetResult("httperror", "undefined", 499, "raw", 0, "undefined", <<>>),
      NetResult("httperror", "undefined", 499, "malformed", 0, "undefined", <<>>) }
ProbeResults == Rejections \cup { r \in Responses(Texts) : r.body # "error" /\ r.headerCode = "undefined" }

\* ------------------------------------------------------------ pure helpers
NullErr == [isNull |-> TRUE, code |-> "undefined", statusCode |-> 0]
Err(code, statusCode) == [isNull |-> FALSE, code |-> code, statusCode |-> statusCode]

\* new ErrorInfo(message, code, statusCode)
ErrorInfo_new(code, statusCode) == Err(code, statusCode)

\* ErrorInfo.fromValues(body.error): the fields of the payload
ErrorInfo_fromValues(payload) == Err(payload.code, payload.statusCode)

\* the arguments one invocation of a callback receives
Args(err, text, isError, statusCode) ==
    [err |-> err, text |-> text, isError |-> isError, statusCode |-> statusCode]
NoArgs == Args(NullErr, <<>>, "undefined", 0)

Called(args) == [called |-> TRUE, thrown |-> FALSE, args |-> args]
Thrown == [called |-> FALSE, thrown |-> TRUE, args |-> NoArgs]

\* handler(uri, params, callback)(err, response, body)
handlerStatusIsError(statusCode) == statusCode >= 300

handler(err, response) ==
    IF ~err.isNull
    THEN Called(Args(err, <<>>, "undefined", 0))
    ELSE IF handlerStatusIsError(response.statusCode)
         THEN IF response.body = "malformed"
              THEN Thrown
              ELSE LET error == IF response.body = "error"
                                THEN ErrorInfo_fromValues(
                                         [code |-> "40100",
                                          statusCode |-> response.payloadStatus])
                                ELSE ErrorInfo_new(response.headerCode,
                                                   response.statusCode)
                   IN Called(Args(error, <<>>, "true", response.statusCode))
         ELSE Called(Args(NullErr, response.text, "false", response.statusCode))

\* function shouldFallback(err)
shouldFallback(err) ==
    \/ err.code \in RecognizedCodes
    \/ (err.statusCode >= 500 /\ err.statusCode <= 504)

\* Defaults.getFallbackHosts(options), Defaults.getHosts(options)
Defaults_getFallbackHosts(fallbacks) == fallbacks
Defaults_getHosts(fallbacks) == <<defaultHost>> \o Defaults_getFallbackHosts(fallbacks)

\* a resolver that puts the connection host in front of the whole default list
getHosts_WholeList(connHost, fallbacks) ==
    IF connHost # "null"
    THEN <<connHost>> \o Defaults_getHosts(fallbacks)
    ELSE Defaults_getHosts(fallbacks)

\* a resolver that returns the connection host without any fallback host
getHosts_ConnectionOnly(connHost, fallbacks) ==
    IF connHost # "null"
    THEN <<connHost>>
    ELSE Defaults_getHosts(fallbacks)

\* function getHosts(client)
getHosts(connHost, fallbacks) ==
    IF connHost # "null"
    THEN <<connHost>> \o Defaults_getFallbackHosts(fallbacks)
    ELSE Defaults_getHosts(fallbacks)

\* Http.doUri from the moment got's promise settles: what the callback
\* passed to doUri sees.  An exception thrown inside the .then handler is
\* caught by the .catch handler as a plain error; an exception thrown inside
\* the .catch handler is an unhandled rejection and the callback never runs.
Http_doUri(net) ==
    IF net.kind = "resolve"
    THEN LET r == handler(NullErr, net)
         IN IF r.thrown THEN handler(Err("undefined", 0), net) ELSE r
    ELSE IF net.kind = "httperror"
         THEN handler(NullErr, net)
         ELSE handler(Err(net.code, 0), net)

\* String.prototype.trim on a text
RECURSIVE trimStart(_)
trimStart(s) ==
    IF s # <<>> /\ Head(s) \in Whitespace THEN trimStart(Tail(s)) ELSE s
RECURSIVE trimEnd(_)
trimEnd(s) ==
    IF s # <<>> /\ s[Len(s)] \in Whitespace
    THEN trimEnd(SubSeq(s, 1, Len(s) - 1)) ELSE s
trim(s) == trimEnd(trimStart(s))

\* rest._currentFallback
Null == [host |-> "null", validUntil |-> 0]
\* a record stored without its time-to-live
NewFallback_NoTimeout(h, t, timeout) == [host |-> h, validUntil |-> t]
NewFallback(h, t, timeout) == [host |-> h, validUntil |-> t + timeout]
\* a validity test that still accepts a record at validUntil = now
fallbackValid_Inclusive(cf, t) == cf.validUntil >= t
\* currentFallback.validUntil > Date.now()
fallbackValid(cf, t) == cf.validUntil > t


\* ------------------------------------------------------------------- state
VARIABLES
    currentFallback,       \* rest._currentFallback
    now,                   \* Date.now()
    connectionHost,        \* client.connection.connectionManager.host
    fallbackHosts,         \* the configured fallback hosts (client.options)
    fallbackRetryTimeout,  \* rest.options.timeouts.fallbackRetryTimeout
    call,                  \* per call of Http.do: where it stands and the
                           \* variables its closures hold
                           \*   pc: "idle" | "stored" | "single" | "try" | "done" | "hung"
                           \*   host, candidateHosts, persistOnSuccess
    hist,                  \* what has been observed of the observed call of Http.do
    ccPc,                  \* Http.checkConnectivity: "idle" | "inflight" | "done" | "hung"
    ccNet,                 \* what the probe's GET settled with
    ccResult               \* the arguments the probe's caller received

vars == <<currentFallback, now, connectionHost, fallbackHosts,
          fallbackRetryTimeout, call, hist, ccPc, ccNet, ccResult>>
dispatchVars == <<currentFallback, now, connectionHost, call, hist>>
configVars == <<fallbackHosts, fallbackRetryTimeout>>
probeVars == <<ccPc, ccNet, ccResult>>

IdleCall == [pc |-> "idle", host |-> "null", candidateHosts |-> <<>>,
             persistOnSuccess |-> FALSE]

\* The observation record of a call of Http.do
\*   hosts     : the list getHosts returned to it (before any shift)
\*   tried     : the hosts it has issued an attempt against, in order
\*   start     : "none" | "expired" | "stored", the state of rest._currentFallback
\*               when it was called; startHost the host of a record it used
\*   lastRaw   : what the last completed attempt was on the wire (rawKind)
\*   lastClass : "ok" | "retry" | "fatal" | "hang", what the last completed
\*               attempt handed to its callback
\*   lastOut   : the callback arguments of the last completed attempt
\*   lastStatus, lastBody : the status code and the kind of body of the
\*               response the last completed attempt received (0 / "raw" for
\*               an attempt without a response)
\*   completed : the number of its attempts whose request has settled
\*   left      : the hosts that were still untried when that attempt completed
\*   delivered : the arguments the caller's callback received
\*   wrote     : the record this call stored; cleared: it set the record to null,
\*               clearedHost the host of the record it set to null
\*   callbacks : how often the caller's callback ran
NoHist == [hosts |-> <<>>, tried |-> <<>>, start |-> "none", startHost |-> "null",
           lastRaw |-> "none", lastClass |-> "none", lastOut |-> NoArgs, left |-> 0,
           lastStatus |-> 0, lastBody |-> "raw", completed |-> 0,
           delivered |-> NoArgs, wrote |-> Null, cleared |-> FALSE,
           clearedHost |-> "null", callbacks |-> 0]

\* what an attempt was on the wire, before the handler looked at it
rawKind(net) ==
    IF net.kind = "reject"
    THEN IF net.code \in RecognizedCodes THEN "recognized" ELSE "unrecognized"
    ELSE IF net.statusCode < 300 THEN "2xx"
         ELSE IF net.statusCode <= 499 THEN "3xx4xx"
              ELSE IF net.statusCode <= 504 THEN "500to504"
                   ELSE "above504"

\* what the callback of an attempt was handed
classOf(r) ==
    IF ~r.called THEN "hang"
    ELSE IF r.args.err.isNull THEN "ok"
         ELSE IF shouldFallback(r.args.err) THEN "retry" ELSE "fatal"

Observe(d, h) == hist' = IF d = observed THEN h ELSE hist

Completed(net, r, left) ==
    [hist EXCEPT !.lastRaw = rawKind(net), !.lastClass = classOf(r),
                 !.lastOut = r.args, !.left = left,
                 !.lastStatus = net.statusCode, !.lastBody = net.body,
                 !.completed = @ + 1]

Init ==
    /\ currentFallback = Null
    /\ now = 0
    /\ connectionHost \in ConnectionHosts
    /\ fallbackHosts \in FallbackHostConfigs
    /\ fallbackRetryTimeout \in TimeoutConfigs
    /\ call = [d \in Dispatches |-> IdleCall]
    /\ hist = NoHist
    /\ ccPc = "idle"
    /\ ccNet = NetResult("reject", "undefined", 0, "raw", 0, "undefined", <<>>)
    /\ ccResult = [err |-> NullErr, connected |-> FALSE]

\* ---------------------------------------------------------------- Http.do
\* lines 152-177 up to the first doUri: resolve the hosts, one attempt for
\* a single host, otherwise tryAHost(hosts) with persistOnSuccess undefined
isSingleHost(hosts) == Len(hosts) = 1

\* var host = candidateHosts.shift() (line 161)
\* a tryAHost that takes the last candidate instead of the first
nextHost_Pop(candidateHosts) == candidateHosts[Len(candidateHosts)]
nextHost(candidateHosts) == Head(candidateHosts)

\* the hosts one invocation of tryAHost issues a request against (line 162)
\* a tryAHost that issues requests against all the candidates at once
issued_All(candidateHosts) == candidateHosts
issued(candidateHosts) == <<nextHost(candidateHosts)>>

\* the hosts a request is issued against when the sequence starts
firstIssued(hosts) == IF isSingleHost(hosts) THEN <<hosts[1]>> ELSE issued(hosts)

startSequence(hosts) ==
    IF isSingleHost(hosts)
    THEN [pc |-> "single", host |-> hosts[1], candidateHosts |-> <<>>,
          persistOnSuccess |-> FALSE]
    ELSE [pc |-> "try", host |-> nextHost(hosts), candidateHosts |-> Tail(hosts),
          persistOnSuccess |-> FALSE]

\* A call of Http.do, up to the point where its first request is in flight
Http_do(d) ==
    /\ call[d].pc \in {"idle", "done", "hung"}
    /\ LET cf == currentFallback
           useStored == cf # Null /\ fallbackValid(cf, now)
           hosts == getHosts(connectionHost, fallbackHosts)
       IN IF useStored
          THEN /\ currentFallback' = cf
               /\ call' = [call EXCEPT ![d] =
                             [pc |-> "stored", host |-> cf.host,
                              candidateHosts |-> <<>>, persistOnSuccess |-> FALSE]]
               /\ Observe(d, [NoHist EXCEPT !.start = "stored", !.startHost = cf.host,
                                            !.tried = <<cf.host>>])
          ELSE /\ currentFallback' = Null
               /\ call' = [call EXCEPT ![d] = startSequence(hosts)]
               /\ Observe(d, [NoHist EXCEPT !.start = IF cf # Null THEN "expired" ELSE "none",
                                            !.cleared = (cf # Null),
                                            !.clearedHost = cf.host,
                                            !.hosts = hosts,
                                            !.tried = firstIssued(hosts)])
    /\ UNCHANGED <<now, connectionHost, configVars, probeVars>>

\* the attempt's callback is never invoked (unhandled rejection in doUri)
Hang(d, net, r) ==
    /\ call' = [call EXCEPT ![d].pc = "hung"]
    /\ Observe(d, Completed(net, r, Len(call[d].candidateHosts)))

\* callback.apply(null, arguments)
Deliver(d, net, r, written) ==
    /\ call' = [call EXCEPT ![d].pc = "done"]
    /\ Observe(d, [Completed(net, r, Len(call[d].candidateHosts)) EXCEPT
                      !.delivered = r.args, !.wrote = written,
                      !.callbacks = @ + 1])

\* the callback of the attempt against the stored fallback host (lines 136-144)
\* rest._currentFallback after the stored-fallback attempt's callback has
\* handed the outcome to the caller (line 143): it is not assigned
\* a callback that renews the record of the host it reused
recordAfterStored_Renewed(cf, host, t, timeout) == NewFallback(host, t, timeout)
recordAfterStored(cf, host, t, timeout) == cf

\* rest._currentFallback = null before Http.do is entered again (line 139)
\* a restart that leaves the record in place
unstore_Kept(cf) == cf
unstore(cf) == Null

\* a stored-fallback callback with the retryability test inverted
storedShouldRestart_NotFallback(err) == ~err.isNull /\ ~shouldFallback(err)
\* a stored-fallback callback that restarts on every error
storedShouldRestart_AnyError(err) == ~err.isNull
storedShouldRestart(err) == ~err.isNull /\ shouldFallback(err)

StoredComplete(d, results) ==
    /\ call[d].pc = "stored"
    /\ \E net \in results :
         LET r == Http_doUri(net)
             hosts == getHosts(connectionHost, fallbackHosts)
         IN IF ~r.called
            THEN Hang(d, net, r) /\ UNCHANGED currentFallback
            ELSE IF storedShouldRestart(r.args.err)
                 THEN \* Http.do is entered again and reads the record anew
                      LET cf == unstore(currentFallback)
                      IN IF cf # Null /\ fallbackValid(cf, now)
                         THEN /\ currentFallback' = cf
                              /\ call' = [call EXCEPT ![d] =
                                            [pc |-> "stored", host |-> cf.host,
                                             candidateHosts |-> <<>>,
                                             persistOnSuccess |-> FALSE]]
                              /\ Observe(d, [Completed(net, r, 0) EXCEPT
                                                !.tried = Append(@, cf.host)])
                         ELSE /\ currentFallback' = Null
                              /\ call' = [call EXCEPT ![d] = startSequence(hosts)]
                              /\ Observe(d, [Completed(net, r, 0) EXCEPT
                                                !.cleared = TRUE,
                                                !.clearedHost = currentFallback.host,
                                                !.hosts = hosts,
                                                !.tried = @ \o firstIssued(hosts)])
                 ELSE /\ Deliver(d, net, r, hist.wrote)
                      /\ currentFallback' = recordAfterStored(currentFallback, call[d].host,
                                                              now, fallbackRetryTimeout)
    /\ UNCHANGED <<now, connectionHost, configVars, probeVars>>

\* the single-host attempt calls the caller's callback directly (line 156)
SingleComplete(d, results) ==
    /\ call[d].pc = "single"
    /\ \E net \in results :
         LET r == Http_doUri(net)
         IN IF ~r.called THEN Hang(d, net, r) ELSE Deliver(d, net, r, hist.wrote)
    /\ UNCHANGED <<currentFallback, now, connectionHost, configVars, probeVars>>

\* the callback of one attempt of tryAHost (lines 162-175)
\* a tryAHost callback that moves on to the next host on every error
tryNextHost_AnyError(err, candidateHosts) ==
    ~err.isNull /\ Len(candidateHosts) > 0
tryNextHost(err, candidateHosts) ==
    ~err.isNull /\ shouldFallback(err) /\ Len(candidateHosts) > 0

persistRecord(persistOnSuccess, err) == persistOnSuccess

TryComplete(d, results) ==
    /\ call[d].pc = "try"
    /\ \E net \in results :
         LET r == Http_doUri(net)
             c == call[d]
         IN IF ~r.called
            THEN Hang(d, net, r) /\ UNCHANGED currentFallback
            ELSE IF tryNextHost(r.args.err, c.candidateHosts)
                 THEN /\ call' = [call EXCEPT ![d] =
                                    [pc |-> "try", host |-> nextHost(c.candidateHosts),
                                     candidateHosts |-> Tail(c.candidateHosts),
                                     persistOnSuccess |-> TRUE]]
                      /\ Observe(d, [Completed(net, r, Len(c.candidateHosts)) EXCEPT
                                        !.tried = @ \o issued(c.candidateHosts)])
                      /\ UNCHANGED currentFallback
                 ELSE IF persistRecord(c.persistOnSuccess, r.args.err)
                      THEN LET rec == NewFallback(c.host, now, fallbackRetryTimeout)
                           IN /\ currentFallback' = rec
                              /\ Deliver(d, net, r, rec)
                      ELSE /\ UNCHANGED currentFallback
                           /\ Deliver(d, net, r, hist.wrote)
    /\ UNCHANGED <<now, connectionHost, configVars, probeVars>>

\* ------------------------------------------------------------- environment
Tick ==
    /\ now < MaxTime
    /\ now' = now + 1
    /\ UNCHANGED <<currentFallback, connectionHost, call, hist, configVars, probeVars>>

\* the realtime connection attaches to another host, or goes away
ConnectionChange ==
    /\ connectionHost' \in ConnectionHosts \ {connectionHost}
    /\ UNCHANGED <<currentFallback, now, call, hist, configVars, probeVars>>

\* --------------------------------------------------- Http.checkConnectivity
Http_checkConnectivity ==
    /\ ccPc \in {"idle", "done", "hung"}
    /\ ccPc' = "inflight"
    /\ UNCHANGED <<ccNet, ccResult, dispatchVars, configVars>>

connectivity(err, responseText) == err.isNull /\ trim(responseText) = yes

CheckConnectivityComplete ==
    /\ ccPc = "inflight"
    /\ \E net \in ProbeResults :
         LET r == Http_doUri(net)
         IN /\ ccNet' = net
            /\ IF ~r.called
               THEN ccPc' = "hung" /\ UNCHANGED ccResult
               ELSE /\ ccPc' = "done"
                    /\ ccResult' = [err |-> NullErr,
                                    connected |-> connectivity(r.args.err, r.args.text)]
    /\ UNCHANGED <<dispatchVars, configVars>>

\* ----------------------------------------------------------- specifications
\* Spec: calls of Http.do run concurrently on one client
Next ==
    \/ \E d \in Dispatches : Http_do(d)
    \/ \E d \in Dispatches : StoredComplete(d, ClassResults)
    \/ \E d \in Dispatches : SingleComplete(d, ClassResults)
    \/ \E d \in Dispatches : TryComplete(d, ClassResults)
    \/ Tick
    \/ ConnectionChange

Spec == Init /\ [][Next]_vars

\* SpecWire: one call of Http.do after the other, each attempt settling with
\* any of the network results
NextWire ==
    \/ Http_do(observed)
    \/ StoredComplete(observed, WireResults)
    \/ SingleComplete(observed, WireResults)
    \/ TryComplete(observed, WireResults)
    \/ Tick
    \/ ConnectionChange

SpecWire == Init /\ [][NextWire]_vars

\* SpecConn: the connectivity probe
NextConn ==
    \/ Http_checkConnectivity
    \/ CheckConnectivityComplete

SpecConn == Init /\ [][NextConn]_vars

TypeOK ==
    /\ now \in 0..MaxTime
    /\ \A d \in Dispatches : call[d].pc \in {"idle", "stored", "single", "try", "done", "hung"}


\* ------------------------------------------------------------------ claims
obs == call[observed]
inFlight == obs.pc \in {"stored", "single", "try"}
\* the observed call took a step
obsStep == call'[observed] # call[observed]
\* number of hosts of the resolved list the observed call has tried
seqTried == Len(hist.tried) - (IF hist.start = "stored" THEN 1 ELSE 0)

\* C1: a call of Http.do stores a FallbackRecord only when an attempt
\* succeeded and that attempt was not the first of the multi-host sequence;
\* a call that ends in a failure stores none.
C1_RecordOnlyOnLaterSuccess ==
    hist.wrote # Null =>
        /\ obs.pc = "done"
        /\ hist.delivered.err.isNull
        /\ seqTried > 1

\* C2: cold start with several hosts; when hosts 1..k-1 fail retryably and
\* host k succeeds, exactly k attempts were made, against hosts 1..k in
\* order, the caller receives that success, and the record becomes
\* {host k, now + fallbackRetryTimeout} when k > 1 and is left alone
\* (nothing stored) when k = 1.
C2_Step ==
    (obs.pc = "try" /\ call'[observed].pc = "done"
        /\ hist'.start = "none" /\ hist'.lastClass = "ok") =>
        LET k == Len(hist'.tried)
        IN /\ hist'.tried = SubSeq(hist'.hosts, 1, k)
           /\ hist'.delivered.err.isNull
           /\ hist'.delivered.isError = "false"
           /\ hist'.callbacks = 1
           /\ IF k > 1
              THEN /\ currentFallback' =
                          [host |-> hist'.hosts[k],
                           validUntil |-> now + fallbackRetryTimeout]
                   /\ hist'.wrote = currentFallback'
              ELSE /\ currentFallback' = currentFallback
                   /\ hist'.wrote = Null
C2_KthHostSuccess == [][C2_Step]_vars
C2_Witness ==
    /\ obs.pc = "done" /\ hist.start = "none" /\ hist.lastClass = "ok"
    /\ Len(hist.tried) = 3
    /\ currentFallback = [host |-> hist.hosts[3], validUntil |-> now + fallbackRetryTimeout]

\* C3: with a single-host configuration the resolved list has one entry,
\* every call makes exactly one attempt whatever its outcome, and no
\* FallbackRecord is ever stored.
C3_SingleHostOneAttempt ==
    /\ fallbackHosts = <<>> =>
          /\ currentFallback = Null
          /\ hist.wrote = Null
          /\ \A d \in Dispatches : call[d].pc \notin {"stored", "try"}
          /\ obs.pc # "idle" => Len(hist.hosts) = 1
    /\ Len(hist.hosts) = 1 =>
          /\ Len(hist.tried) = 1
          /\ hist.wrote = Null
          /\ obs.pc \in {"single", "done", "hung"}
C3_Witness ==
    /\ fallbackHosts = <<>> /\ obs.pc = "done" /\ hist.lastClass = "retry"
    /\ Len(hist.tried) = 1
    /\ \E d \in Dispatches \ {observed} : call[d].pc = "done"

\* C4: a call that starts with a stored, non-expired record attempts the
\* stored host first; on success or a non-retryable failure it makes no
\* further attempt and hands that outcome to the caller; on a retryable
\* failure it clears the record and runs the resolved host sequence from
\* its first host, without calling the caller back in between.
C4_Start ==
    (~inFlight /\ obsStep /\ currentFallback # Null /\ currentFallback.validUntil > now) =>
        /\ call'[observed].pc = "stored"
        /\ call'[observed].host = currentFallback.host
        /\ hist'.tried = <<currentFallback.host>>
        /\ currentFallback' = currentFallback
C4_Completion ==
    (obs.pc = "stored" /\ obsStep) =>
        /\ hist'.lastClass \in {"ok", "fatal"} =>
              /\ call'[observed].pc = "done"
              /\ hist'.tried = hist.tried
              /\ hist'.delivered = hist'.lastOut
              /\ hist'.callbacks = 1
              /\ currentFallback' = currentFallback
        /\ hist'.lastClass = "retry" =>
              /\ currentFallback' = Null
              /\ call'[observed].pc \in {"single", "try"}
              /\ call'[observed].host = getHosts(connectionHost, fallbackHosts)[1]
              /\ hist'.tried = Append(hist.tried, call'[observed].host)
              /\ hist'.callbacks = 0
C4_Sequence ==
    (hist.start = "stored" /\ Len(hist.tried) >= 2) =>
        /\ SubSeq(hist.tried, 2, Len(hist.tried)) = SubSeq(hist.hosts, 1, seqTried)
        /\ obs.pc = "done" =>
              \/ hist.lastClass \in {"ok", "fatal"}
              \/ seqTried = Len(hist.hosts)
C5_Start ==
    (~inFlight /\ obsStep /\ currentFallback # Null /\ currentFallback.validUntil <= now) =>
        /\ currentFallback' = Null
        /\ call'[observed] = startSequence(getHosts(connectionHost, fallbackHosts))
        /\ hist'.start = "expired"
        /\ hist'.tried = <<getHosts(connectionHost, fallbackHosts)[1]>>
C5_Sequence ==
    hist.start = "expired" => hist.tried = SubSeq(hist.hosts, 1, Len(hist.tried))
C5_ExpiredNeverUsed == [][C5_Start /\ C5_Sequence']_vars
C5_Witness ==
    /\ hist.start = "expired" /\ obs.pc = "done" /\ Len(hist.tried) = 2
    /\ hist.lastClass = "ok"

\* C6: in the multi-host sequence an attempt that ends with a recognized
\* network error code or with a response of status 500..504 is followed by
\* an attempt against the next host whenever a host remains, the caller not
\* being called back.
C6_RetryableIsRetried ==
    (hist.left > 0 /\ hist.lastRaw \in {"recognized", "500to504"}) =>
        /\ obs.pc = "try"
        /\ hist.callbacks = 0

\* C7: a response with status 300..499 is never retried, whatever its error
\* payload or error headers: no further attempt is made and the failure is
\* handed to the caller at once.
C7_ClientErrorNeverRetried ==
    hist.lastRaw = "3xx4xx" =>
        /\ obs.pc = "done"
        /\ ~hist.delivered.err.isNull
        /\ hist.delivered = hist.lastOut

\* C8: the caller receives the outcome of the last attempt of the call; a
\* retryable failure of an earlier attempt is not delivered, a retryable
\* failure is delivered only when no host remains, and a non-retryable
\* failure (or a success) is delivered by the attempt it occurs in.
C8_State ==
    /\ obs.pc = "done" => (hist.delivered = hist.lastOut /\ hist.callbacks = 1)
    /\ (inFlight /\ hist.lastClass # "none") =>
          (hist.lastClass = "retry" /\ hist.callbacks = 0 /\ hist.delivered = NoArgs)
    /\ (obs.pc = "done" /\ hist.lastClass = "retry") =>
          (hist.left = 0 /\ seqTried = Len(hist.hosts))
    /\ hist.lastClass \in {"fatal", "ok"} => obs.pc = "done"
C8_Step ==
    (inFlight /\ obsStep /\ hist'.lastClass \in {"fatal", "ok"}) =>
        (hist'.tried = hist.tried /\ call'[observed].pc = "done")
C9_CallbackExactlyOnce ==
    (obs.pc # "idle" /\ ~inFlight) => hist.callbacks = 1

\* C10: the connectivity probe calls back with a null error in every case,
\* and reports true exactly when the request succeeded and the trimmed body
\* is the string yes.
C10_ProbeReport ==
    ccPc \notin {"idle", "inflight"} =>
        /\ ccPc = "done"
        /\ ccResult.err.isNull
        /\ ccResult.connected =
              (ccNet.kind # "reject" /\ ccNet.statusCode < 300 /\ trim(ccNet.text) = yes)


\* C11: every response is classified as exactly one of success and failure:
\* a status below 300 gives (null error, isError false, that status), a
\* status of 300 or more gives (an error, isError true, that status), and no
\* callback receives a null error with isError true or an error with
\* isError false.
C11_ExactlyOneOutcome ==
    /\ hist.lastRaw = "2xx" =>
          /\ hist.lastClass = "ok"
          /\ hist.lastOut.isError = "false"
          /\ hist.lastOut.statusCode = hist.lastStatus
    /\ hist.lastRaw \in {"3xx4xx", "500to504", "above504"} =>
          /\ hist.lastClass \in {"retry", "fatal"}
          /\ hist.lastOut.isError = "true"
          /\ hist.lastOut.statusCode = hist.lastStatus
    /\ ~(hist.lastOut.err.isNull /\ hist.lastOut.isError = "true")
    /\ ~(~hist.lastOut.err.isNull /\ hist.lastOut.isError = "false")

\* C12: an attempt whose response has a body that is malformed for its
\* declared content type ends the call: a failure is delivered to the
\* caller and no further host is attempted.
C12_DecodeErrorIsFailure ==
    (hist.lastBody = "malformed") =>
        /\ obs.pc = "done"
        /\ ~hist.delivered.err.isNull
        /\ hist.delivered = hist.lastOut


\* C13: the host resolver returns the connection host followed by all the
\* configured fallback hosts when the client has a connection host, and the
\* default host followed by the configured fallback hosts otherwise; the
\* list is never empty and the first attempt of a cold start goes to its
\* first entry.
C13_Start ==
    (~inFlight /\ obsStep
        /\ ~(currentFallback # Null /\ currentFallback.validUntil > now)) =>
        /\ hist'.hosts = (IF connectionHost # "null"
                          THEN <<connectionHost>> \o fallbackHosts
                          ELSE <<defaultHost>> \o fallbackHosts)
        /\ Len(hist'.hosts) >= 1
        /\ call'[observed].host = hist'.hosts[1]
        /\ hist'.tried = <<hist'.hosts[1]>>
C13_HostResolver == [][C13_Start]_vars
C13_Witness ==
    /\ hist.start = "none" /\ hist.hosts = <<"R", "B", "C">>
    /\ hist.tried = <<"R">> /\ obs.pc = "try" /\ obs.host = "R"

\* C14: a call makes a bounded number of attempts: at most one of them
\* through the stored record (the restart finds the record null and goes on
\* to the resolved hosts), and at most 1 + Len(hosts) in total, whatever the
\* other calls on the client do to the record.
C14_State ==
    /\ Len(hist.tried) <= 1 + Len(hist.hosts)
    /\ hist.start # "stored" => Len(hist.tried) <= Len(hist.hosts)
    /\ obs.pc = "stored" => (Len(hist.tried) = 1 /\ hist.completed = 0)
    /\ seqTried <= Len(hist.hosts)
C14_Restart ==
    (obs.pc = "stored" /\ obsStep /\ call'[observed].pc \notin {"done", "hung"}) =>
        /\ currentFallback' = Null
        /\ call'[observed].pc \in {"single", "try"}
C14_BoundedAttempts == [][C14_State' /\ C14_Restart]_vars
C14_Witness ==
    /\ hist.start = "stored" /\ obs.pc = "done" /\ hist.lastClass = "ok"
    /\ Len(hist.hosts) = 3 /\ Len(hist.tried) = 4
    /\ \E d \in Dispatches \ {observed} : call[d].pc = "try"


\* C15: the attempts of one call are sequential: at most one of its
\* requests is in flight at any time, and a request against the next host
\* is issued only in the step in which the previous one settles.
C15_State ==
    Len(hist.tried) - hist.completed = (IF inFlight THEN 1 ELSE 0)
C15_Step ==
    (inFlight /\ Len(hist'.tried) > Len(hist.tried)) =>
        /\ Len(hist'.tried) = Len(hist.tried) + 1
        /\ hist'.completed = Len(hist.tried)
C15_SequentialAttempts == [][C15_State' /\ C15_Step]_vars
C15_Witness ==
    /\ obs.pc = "try" /\ Len(hist.tried) = 3 /\ hist.completed = 2
    /\ hist.start = "none"


\* C16: the host list resolved for a request never contains the same
\* hostname twice, whatever the default host, the fallback hosts and the
\* connection host are.
C16_NoDuplicateHosts ==
    \A i, j \in 1..Len(hist.hosts) : i # j => hist.hosts[i] # hist.hosts[j]

\* C17 as stated: the record is set to null only by a call that finds it
\* expired when it starts, or by a call whose attempt against the host that
\* the record names at that moment failed retryably.
C17_ClearStep ==
    \A d \in Dispatches :
        (call'[d] # call[d] /\ currentFallback # Null /\ currentFallback' = Null) =>
            \/ /\ call[d].pc \notin {"stored", "single", "try"}
               /\ currentFallback.validUntil <= now
            \/ /\ call[d].pc = "stored"
               /\ call'[d].pc \in {"single", "try"}
               /\ currentFallback.host = call[d].host
C17_ClearsOnlyOwnRecord == [][C17_ClearStep]_vars

\* C17 as amended: the record is set to null only by a call that finds it
\* expired when it starts, or by a call whose attempt against the host of
\* the record it read when it started failed retryably; the record that is
\* set to null may name another host, stored by a concurrent call since.
C17_AmendedStep ==
    \A d \in Dispatches :
        (call'[d] # call[d] /\ currentFallback # Null /\ currentFallback' = Null) =>
            \/ /\ call[d].pc \notin {"stored", "single", "try"}
               /\ currentFallback.validUntil <= now
            \/ /\ call[d].pc = "stored"
               /\ call'[d].pc \in {"single", "try"}
               /\ d = observed =>
                     /\ hist'.lastClass = "retry"
                     /\ call[d].host = hist.startHost
                     /\ hist'.clearedHost = currentFallback.host
C17_ClearsAfterOwnAttempt == [][C17_AmendedStep]_vars
C17_Witness ==
    /\ hist.start = "stored" /\ hist.cleared
    /\ hist.clearedHost \notin {"null", hist.startHost}


\* C18: a FallbackRecord that is stored has validUntil greater than the
\* time at which it is stored, whatever the configured time-to-live.
C18_StoreStep ==
    (currentFallback' # currentFallback /\ currentFallback' # Null) =>
        currentFallback'.validUntil > now
C18_ValidAfterCreation == [][C18_StoreStep]_vars


\* C19: a call that uses a stored, non-expired record and whose attempt
\* succeeds or fails non-retryably writes nothing to the record: its host
\* and validUntil are as they were before the call started and before its
\* callback ran.
C19_State ==
    (hist.start = "stored" /\ Len(hist.tried) = 1) =>
        (hist.wrote = Null /\ ~hist.cleared)
C19_Step ==
    /\ (~inFlight /\ obsStep /\ call'[observed].pc = "stored") =>
          currentFallback' = currentFallback
    /\ (obs.pc = "stored" /\ obsStep /\ hist'.lastClass \in {"ok", "fatal"}) =>
          /\ currentFallback' = currentFallback
          /\ call'[observed].pc = "done"
C19_StoredReuseWritesNothing == [][C19_State' /\ C19_Step]_vars
C19_Witness ==
    /\ hist.start = "stored" /\ obs.pc = "done" /\ hist.lastClass = "ok"
    /\ Len(hist.tried) = 1
    /\ currentFallback.host = hist.startHost
    /\ currentFallback.validUntil = now + 1
    /\ fallbackRetryTimeout = 2

\* C20: the hosts a call attempts are the first n >= 1 hosts of the list it
\* resolved, in list order and without a gap, preceded by one attempt
\* against the stored host only if that attempt failed retryably; the stored
\* host is attempted again only as a member of the resolved list.
C20_State ==
    /\ (hist.start # "stored" /\ obs.pc # "idle") =>
          /\ Len(hist.tried) >= 1
          /\ hist.tried = SubSeq(hist.hosts, 1, Len(hist.tried))
    /\ hist.start = "stored" =>
          /\ hist.tried[1] = hist.startHost
          /\ Len(hist.tried) = 1 => hist.hosts = <<>>
          /\ Len(hist.tried) >= 2 =>
                /\ seqTried <= Len(hist.hosts)
                /\ SubSeq(hist.tried, 2, Len(hist.tried)) = SubSeq(hist.hosts, 1, seqTried)
          /\ \A i \in 2..Len(hist.tried) :
                hist.tried[i] = hist.startHost =>
                    \E j \in 1..Len(hist.hosts) : hist.hosts[j] = hist.startHost
C20_Step ==
    (obs.pc = "stored" /\ obsStep /\ Len(hist'.tried) > Len(hist.tried)) =>
        hist'.lastClass = "retry"
====
